---- MODULE Spec2Model ----
(***************************************************************************)
(* Model of test2.py: the workout calculator (Training and its three       *)
(* dataclass variants Running, SportsWalking, Swimming), the dispatcher    *)
(* read_package, the reporter main / InfoMessage.get_message and the      *)
(* batch loop of the __main__ block.                                       *)
(*                                                                         *)
(* Numbers.  Python's int and float values are modelled as exact rationals *)
(* [n |-> numerator, d |-> denominator > 0] in lowest terms; the input     *)
(* sets below hold non-negative values only.  The result of evaluating a   *)
(* Python expression is an outcome [exc, n, d]: exc = "None" for a value,  *)
(* otherwise the name of the exception the evaluation raised.              *)
(*                                                                         *)
(* Text.  The message literals of the source are Cyrillic; string literals *)
(* of this module are ASCII, so each literal is written transliterated     *)
(* (the source text is quoted next to it).                                 *)
(***************************************************************************)
EXTENDS Integers, Sequences, FiniteSets, TLC

VARIABLES
    cls,        \* class attributes (ClassVar constants) of each class
    packages,   \* the list of (workout_type, data) pairs of the run
    i,          \* 1-based position of the batch loop in packages
    training,   \* the record read_package returned last, or NoTraining
    info,       \* the InfoMessage show_training_info returned last, or NoInfo
    stdout,     \* the lines printed so far
    exc,        \* the uncaught exception that ended the run, or NoExc
    pc,         \* position of the program
    ret,        \* return value of the last direct method call
    reports,    \* InfoMessages built by direct show_training_info calls
    ncalls      \* number of direct method calls made

vars == <<cls, packages, i, training, info, stdout, exc, pc, ret, reports, ncalls>>

\* ---------------------------------------------------------------- bounds
MaxBatch == 3
MaxLen == 6
MaxCalls == 3

\* ------------------------------------------------------------- rationals
Abs(k) == IF k < 0 THEN -k ELSE k

RECURSIVE GCD(_, _)
GCD(a, b) == IF b = 0 THEN a ELSE GCD(b, a % b)

\* The rational n/d (d # 0) in lowest terms with a positive denominator.
Q(n, d) ==
    LET g == GCD(Abs(n), Abs(d))
        s == IF d < 0 THEN -1 ELSE 1
    IN [n |-> s * (n \div g), d |-> s * (d \div g)]

Num(k) == [n |-> k, d |-> 1]

\* Product, sum and quotient (b # 0) of rationals in lowest terms; common
\* factors are cancelled before multiplying.
QMul(a, b) ==
    LET g == GCD(Abs(a.n), b.d)
        h == GCD(Abs(b.n), a.d)
    IN Q((a.n \div g) * (b.n \div h), (a.d \div h) * (b.d \div g))

QAdd(a, b) ==
    LET g == GCD(a.d, b.d)
    IN Q(a.n * (b.d \div g) + b.n * (a.d \div g), (a.d \div g) * b.d)

QDiv(a, b) ==
    IF b.n < 0 THEN QMul(a, [n |-> -b.d, d |-> -b.n])
    ELSE QMul(a, [n |-> b.d, d |-> b.n])

\* floor(n / d) for d > 0 (TLA+'s \div rounds toward minus infinity).
FloorQ(q) == q.n \div q.d

\* ----------------------------------------------- outcomes of evaluation
Val(q) == [exc |-> "None", n |-> q.n, d |-> q.d]
Raise(e) == [exc |-> e, n |-> 0, d |-> 1]
IsVal(v) == v.exc = "None"
Rat(v) == [n |-> v.n, d |-> v.d]

\* Python evaluates the left operand first; the first exception propagates.
Mul(a, b) ==
    IF ~IsVal(a) THEN a
    ELSE IF ~IsVal(b) THEN b
    ELSE Val(QMul(Rat(a), Rat(b)))

Add(a, b) ==
    IF ~IsVal(a) THEN a
    ELSE IF ~IsVal(b) THEN b
    ELSE Val(QAdd(Rat(a), Rat(b)))

\* a / b: true division, ZeroDivisionError when b is zero.
TrueDiv(a, b) ==
    IF ~IsVal(a) THEN a
    ELSE IF ~IsVal(b) THEN b
    ELSE IF b.n = 0 THEN Raise("ZeroDivisionError")
    ELSE Val(QDiv(Rat(a), Rat(b)))

\* a // b: floor division, ZeroDivisionError when b is zero.
FloorDiv(a, b) ==
    IF ~IsVal(a) THEN a
    ELSE IF ~IsVal(b) THEN b
    ELSE IF b.n = 0 THEN Raise("ZeroDivisionError")
    ELSE Val(Num(FloorQ(QDiv(Rat(a), Rat(b)))))

RECURSIVE PowNat(_, _)
PowNat(q, k) == IF k = 0 THEN Num(1) ELSE QMul(q, PowNat(q, k - 1))

\* a ** b for a natural-number exponent b.
Pow(a, b) ==
    IF ~IsVal(a) THEN a
    ELSE IF ~IsVal(b) THEN b
    ELSE Val(PowNat(Rat(a), b.n))

\* ------------------------------------------------------ class attributes
\* The class-level constants, per class that defines them.
ClassVars ==
    [Training      |-> [LEN_STEP |-> Q(65, 100), M_IN_KM |-> Num(1000),
                        TIME_CONST |-> Num(60)],
     Running       |-> [CALORIES_MEAN_SPEED_MULTIPLIER |-> Num(18),
                        CALORIES_MEAN_SPEED_SHIFT |-> Q(179, 100)],
     SportsWalking |-> [calorie_1 |-> Q(35, 1000), calorie_2 |-> Q(29, 1000),
                        calorie_3 |-> Num(2)],
     Swimming      |-> [LEN_STEP |-> Q(138, 100), calorie_1 |-> Q(11, 10),
                        calorie_2 |-> Num(2)]]

\* self.NAME: the attribute of the object's own class if it defines one,
\* else the one inherited from Training.
Attr(self, name) ==
    IF name \in DOMAIN cls[self.class]
    THEN Val(cls[self.class][name])
    ELSE Val(cls["Training"][name])

\* Fault: Swimming declares count_pool before length_pool.
Fields_swapped(c) ==
    CASE c = "Training"      -> <<"action", "duration", "weight">>
      [] c = "Running"       -> <<"action", "duration", "weight">>
      [] c = "SportsWalking" -> <<"action", "duration", "weight", "height">>
      [] c = "Swimming"      -> <<"action", "duration", "weight", "count_pool",
                                  "length_pool">>

\* The dataclass fields of each class in declaration order (inherited first).
Fields(c) ==
    CASE c = "Training"      -> <<"action", "duration", "weight">>
      [] c = "Running"       -> <<"action", "duration", "weight">>
      [] c = "SportsWalking" -> <<"action", "duration", "weight", "height">>
      [] c = "Swimming"      -> <<"action", "duration", "weight", "length_pool",
                                  "count_pool">>

NoTraining == [class |-> "None"]
NoInfo == [training_type |-> "None"]
NoExc == [type |-> "None", msg |-> ""]
NoRet == [kind |-> "None"]

\* Fault: an __init__ that ignores surplus positional arguments.
Construct_lenient(c, data) ==
    IF Len(data) < Len(Fields(c))
    THEN [exc |-> [type |-> "TypeError", msg |-> c \o ".__init__()"],
          obj |-> NoTraining]
    ELSE [exc |-> NoExc,
          obj |-> [f \in {"class"} \cup {Fields(c)[k] : k \in 1..Len(Fields(c))} |->
                      IF f = "class" THEN c
                      ELSE data[CHOOSE k \in 1..Len(Fields(c)) : Fields(c)[k] = f]]]

\* The generated dataclass __init__: binds the positional arguments to the
\* fields in order; a different number of arguments is a TypeError.
Construct(c, data) ==
    IF Len(data) # Len(Fields(c))
    THEN [exc |-> [type |-> "TypeError", msg |-> c \o ".__init__()"],
          obj |-> NoTraining]
    ELSE [exc |-> NoExc,
          obj |-> [f \in {"class"} \cup {Fields(c)[k] : k \in 1..Len(data)} |->
                      IF f = "class" THEN c
                      ELSE data[CHOOSE k \in 1..Len(data) : Fields(c)[k] = f]]]

\* ------------------------------------------------------------- Training
Training_get_distance(self) ==
    TrueDiv(Mul(Val(self.action), Attr(self, "LEN_STEP")), Attr(self, "M_IN_KM"))

get_distance(self) == Training_get_distance(self)

Training_get_mean_speed(self) ==
    TrueDiv(get_distance(self), Val(self.duration))

Swimming_get_mean_speed(self) ==
    TrueDiv(TrueDiv(Mul(Val(self.length_pool), Val(self.count_pool)),
                    Attr(self, "M_IN_KM")),
            Val(self.duration))

\* Fault: Swimming does not override get_mean_speed.
get_mean_speed_base(self) == Training_get_mean_speed(self)

get_mean_speed(self) ==
    IF self.class = "Swimming" THEN Swimming_get_mean_speed(self)
    ELSE Training_get_mean_speed(self)

Training_get_spent_calories(self) == Raise("NotImplementedError")

\* Fault: the division by M_IN_KM is left out.
Running_get_spent_calories_nokm(self) ==
    Mul(Mul(Mul(Add(Mul(Attr(self, "CALORIES_MEAN_SPEED_MULTIPLIER"),
                        get_mean_speed(self)),
                    Attr(self, "CALORIES_MEAN_SPEED_SHIFT")),
                Val(self.weight)),
            Val(self.duration)),
        Attr(self, "TIME_CONST"))

Running_get_spent_calories(self) ==
    Mul(Mul(TrueDiv(Mul(Add(Mul(Attr(self, "CALORIES_MEAN_SPEED_MULTIPLIER"),
                                get_mean_speed(self)),
                            Attr(self, "CALORIES_MEAN_SPEED_SHIFT")),
                        Val(self.weight)),
                    Attr(self, "M_IN_KM")),
            Val(self.duration)),
        Attr(self, "TIME_CONST"))

\* Fault: true division where the source floor-divides.
SportsWalking_get_spent_calories_truediv(self) ==
    Mul(Mul(Add(Mul(Attr(self, "calorie_1"), Val(self.weight)),
                Mul(Mul(TrueDiv(Pow(get_mean_speed(self), Attr(self, "calorie_3")),
                                Val(self.height)),
                        Attr(self, "calorie_2")),
                    Val(self.weight))),
            Attr(self, "TIME_CONST")),
        Val(self.duration))

\* Fault: the operands of the floor division are exchanged.
SportsWalking_get_spent_calories_swapped(self) ==
    Mul(Mul(Add(Mul(Attr(self, "calorie_1"), Val(self.weight)),
                Mul(Mul(FloorDiv(Val(self.height),
                                 Pow(get_mean_speed(self), Attr(self, "calorie_3"))),
                        Attr(self, "calorie_2")),
                    Val(self.weight))),
            Attr(self, "TIME_CONST")),
        Val(self.duration))

SportsWalking_get_spent_calories(self) ==
    Mul(Mul(Add(Mul(Attr(self, "calorie_1"), Val(self.weight)),
                Mul(Mul(FloorDiv(Pow(get_mean_speed(self), Attr(self, "calorie_3")),
                                 Val(self.height)),
                        Attr(self, "calorie_2")),
                    Val(self.weight))),
            Attr(self, "TIME_CONST")),
        Val(self.duration))

Swimming_get_spent_calories(self) ==
    Mul(Mul(Add(get_mean_speed(self), Attr(self, "calorie_1")),
            Attr(self, "calorie_2")),
        Val(self.weight))

get_spent_calories(self) ==
    CASE self.class = "Running"       -> Running_get_spent_calories(self)
      [] self.class = "SportsWalking" -> SportsWalking_get_spent_calories(self)
      [] self.class = "Swimming"      -> Swimming_get_spent_calories(self)
      [] OTHER                        -> Training_get_spent_calories(self)

\* ---------------------------------------------------------- InfoMessage
Digit == <<"0", "1", "2", "3", "4", "5", "6", "7", "8", "9">>

RECURSIVE IntStr(_)
IntStr(k) == IF k < 10 THEN Digit[k + 1] ELSE IntStr(k \div 10) \o Digit[(k % 10) + 1]

\* The non-negative rational q in thousandths, rounded to the nearest
\* thousandth, ties to the even one.
Thousandths(q) ==
    LET t == q.n * 1000
        lo == t \div q.d
        r == t % q.d
    IN IF 2 * r > q.d THEN lo + 1
       ELSE IF 2 * r < q.d THEN lo
       ELSE IF lo % 2 = 0 THEN lo ELSE lo + 1

\* f'{q:.3f}': fixed point, exactly three digits after the point.
Format3f(q) ==
    LET m == Thousandths(q)
        f == m % 1000
    IN IntStr(m \div 1000) \o "." \o Digit[(f \div 100) + 1]
         \o Digit[((f \div 10) % 10) + 1] \o Digit[(f % 10) + 1]

InfoMessage(training_type, duration, distance, speed, calories) ==
    [training_type |-> training_type, duration |-> duration,
     distance |-> distance, speed |-> speed, calories |-> calories]

\* Source literals: 'Тип тренировки: ', 'Длительность: ', ' ч.; ',
\* 'Дистанция: ', ' км; ', 'Ср. скорость: ', ' км/ч; ', 'Потрачено ккал: '.
get_message(self) ==
    "Tip trenirovki: " \o self.training_type \o "; "
    \o "Dlitelnost: " \o Format3f(self.duration) \o " ch.; "
    \o "Distantsiya: " \o Format3f(self.distance) \o " km; "
    \o "Sr. skorost: " \o Format3f(self.speed) \o " km/ch; "
    \o "Potracheno kkal: " \o Format3f(self.calories) \o "."

\* Fault: the report is tagged with the base class name, not the object's.
show_training_info_basename(self) ==
    LET distance == get_distance(self)
        speed == get_mean_speed(self)
        calories == get_spent_calories(self)
        raised == IF ~IsVal(distance) THEN distance.exc
                  ELSE IF ~IsVal(speed) THEN speed.exc
                  ELSE calories.exc
    IN IF raised # "None"
       THEN [exc |-> [type |-> raised, msg |-> ""], info |-> NoInfo]
       ELSE [exc |-> NoExc,
             info |-> InfoMessage("Training", self.duration, Rat(distance),
                                  Rat(speed), Rat(calories))]

\* The arguments of InfoMessage(...) are evaluated left to right; the first
\* exception ends the call.
show_training_info(self) ==
    LET distance == get_distance(self)
        speed == get_mean_speed(self)
        calories == get_spent_calories(self)
        raised == IF ~IsVal(distance) THEN distance.exc
                  ELSE IF ~IsVal(speed) THEN speed.exc
                  ELSE calories.exc
    IN IF raised # "None"
       THEN [exc |-> [type |-> raised, msg |-> ""], info |-> NoInfo]
       ELSE [exc |-> NoExc,
             info |-> InfoMessage(self.class, self.duration, Rat(distance),
                                  Rat(speed), Rat(calories))]

\* ----------------------------------------------------------- dispatcher
workout == [SWM |-> "Swimming", RUN |-> "Running", WLK |-> "SportsWalking"]

\* Fault: the code is upper-cased before the lookup.
read_package_upper(workout_type, data) ==
    LET code == IF workout_type = "run" THEN "RUN" ELSE workout_type
    IN IF code \notin DOMAIN workout
       THEN [exc |-> [type |-> "ValueError",
                      msg |-> "Takoi trenirovki - " \o workout_type \o ", ne naideno"],
             obj |-> NoTraining]
       ELSE Construct(workout[code], data)

\* Source literal: f"Такой тренировки - {workout_type}, не найдено".
read_package(workout_type, data) ==
    IF workout_type \notin DOMAIN workout
    THEN [exc |-> [type |-> "ValueError",
                   msg |-> "Takoi trenirovki - " \o workout_type \o ", ne naideno"],
          obj |-> NoTraining]
    ELSE Construct(workout[workout_type], data)

\* ---------------------------------------------------------------- inputs
Pkg(workout_type, data) == [workout_type |-> workout_type, data |-> data]

\* The packages list of the __main__ block.
SamplePackages ==
    <<Pkg("SWM", <<Num(720), Num(1), Num(80), Num(25), Num(40)>>),
      Pkg("RUN", <<Num(15000), Num(1), Num(75)>>),
      Pkg("WLK", <<Num(9000), Num(1), Num(75), Num(180)>>)>>

\* Pairs a batch is made of: the three of the source and failing ones (an
\* unknown code, too few and too many values, a zero duration, a zero height).
BatchPackages ==
    {SamplePackages[k] : k \in 1..Len(SamplePackages)} \cup
    {Pkg("FOO", <<Num(1), Num(2), Num(3)>>),
     Pkg("RUN", <<Num(15000), Num(1)>>),
     Pkg("WLK", <<Num(9000), Num(1), Num(75), Num(180), Num(1)>>),
     Pkg("RUN", <<Num(15000), Num(0), Num(75)>>),
     Pkg("WLK", <<Num(9000), Num(1), Num(75), Num(0)>>)}

Batches == UNION {[1..len -> BatchPackages] : len \in 0..MaxBatch}

Codes == {"SWM", "RUN", "WLK", "FOO", "run", ""}
ActionValues == {Num(0), Num(720), Num(9000), Num(15000)}
DurationValues == {Num(0), Q(1, 4), Num(1), Num(2)}
WeightValues == {Num(0), Num(75), Num(80)}
FourthValues == {Num(0), Num(25), Num(180)}
FifthValues == {Num(0), Num(40)}

\* Data lists of every length up to MaxLen; the values past the fifth are 1.
DataLists ==
    {[k \in 1..len |-> IF k <= 5 THEN v[k] ELSE Num(1)] :
        v \in ActionValues \X DurationValues \X WeightValues \X FourthValues
              \X FifthValues,
        len \in 0..MaxLen}

CallPackages == {Pkg(c, data) : c \in Codes, data \in DataLists}

\* ------------------------------------------------------------ batch run
Init ==
    /\ cls = ClassVars
    /\ packages \in Batches
    /\ i = 1
    /\ training = NoTraining
    /\ info = NoInfo
    /\ stdout = <<>>
    /\ exc = NoExc
    /\ pc = "loop"
    /\ ret = NoRet
    /\ reports = <<>>
    /\ ncalls = 0

\* training = read_package(workout_type, data) of the loop body.
ReadPackage ==
    /\ pc = "loop"
    /\ i <= Len(packages)
    /\ LET r == read_package(packages[i].workout_type, packages[i].data)
       IN IF r.exc # NoExc
          THEN /\ exc' = r.exc
               /\ pc' = "halted"
               /\ UNCHANGED training
          ELSE /\ training' = r.obj
               /\ pc' = "main"
               /\ UNCHANGED exc
    /\ UNCHANGED <<cls, packages, i, info, stdout, ret, reports, ncalls>>

\* Fault: the loop catches the exception and goes on with the next pair.
Main_continue ==
    /\ pc = "main"
    /\ LET r == show_training_info(training)
       IN IF r.exc # NoExc
          THEN /\ i' = i + 1
               /\ pc' = "loop"
               /\ UNCHANGED <<info, stdout, exc>>
          ELSE /\ info' = r.info
               /\ stdout' = Append(stdout, get_message(r.info))
               /\ i' = i + 1
               /\ pc' = "loop"
               /\ UNCHANGED exc
    /\ UNCHANGED <<cls, packages, training, ret, reports, ncalls>>

\* main(training): build the report and print its message.
Main ==
    /\ pc = "main"
    /\ LET r == show_training_info(training)
       IN IF r.exc # NoExc
          THEN /\ exc' = r.exc
               /\ pc' = "halted"
               /\ UNCHANGED <<info, stdout, i>>
          ELSE /\ info' = r.info
               /\ stdout' = Append(stdout, get_message(r.info))
               /\ i' = i + 1
               /\ pc' = "loop"
               /\ UNCHANGED exc
    /\ UNCHANGED <<cls, packages, training, ret, reports, ncalls>>

\* The for loop is exhausted: the program ends normally.
LoopEnd ==
    /\ pc = "loop"
    /\ i > Len(packages)
    /\ pc' = "done"
    /\ UNCHANGED <<cls, packages, i, training, info, stdout, exc, ret, reports, ncalls>>

Next == ReadPackage \/ Main \/ LoopEnd

Spec == Init /\ [][Next]_vars

\* --------------------------------------------------------- direct calls
\* One dispatch, then the record's methods called directly, in any order.
InitCalls ==
    /\ cls = ClassVars
    /\ packages \in {<<p>> : p \in CallPackages}
    /\ i = 1
    /\ training = NoTraining
    /\ info = NoInfo
    /\ stdout = <<>>
    /\ exc = NoExc
    /\ pc = "call"
    /\ ret = NoRet
    /\ reports = <<>>
    /\ ncalls = 0

CallReadPackage ==
    /\ pc = "call"
    /\ LET r == read_package(packages[1].workout_type, packages[1].data)
       IN IF r.exc # NoExc
          THEN /\ exc' = r.exc
               /\ pc' = "raised"
               /\ UNCHANGED training
          ELSE /\ training' = r.obj
               /\ pc' = "ready"
               /\ UNCHANGED exc
    /\ UNCHANGED <<cls, packages, i, info, stdout, ret, reports, ncalls>>

CallGetDistance ==
    /\ pc = "ready"
    /\ ncalls < MaxCalls
    /\ ret' = [kind |-> "get_distance", v |-> get_distance(training)]
    /\ ncalls' = ncalls + 1
    /\ UNCHANGED <<cls, packages, i, training, info, stdout, exc, pc, reports>>

CallGetMeanSpeed ==
    /\ pc = "ready"
    /\ ncalls < MaxCalls
    /\ ret' = [kind |-> "get_mean_speed", v |-> get_mean_speed(training)]
    /\ ncalls' = ncalls + 1
    /\ UNCHANGED <<cls, packages, i, training, info, stdout, exc, pc, reports>>

CallGetSpentCalories ==
    /\ pc = "ready"
    /\ ncalls < MaxCalls
    /\ ret' = [kind |-> "get_spent_calories", v |-> get_spent_calories(training)]
    /\ ncalls' = ncalls + 1
    /\ UNCHANGED <<cls, packages, i, training, info, stdout, exc, pc, reports>>

\* Fault: the report build stores the computed distance in the record.
CallShowTrainingInfo_caching ==
    /\ pc = "ready"
    /\ ncalls < MaxCalls
    /\ LET r == show_training_info(training)
       IN /\ ret' = [kind |-> "show_training_info", v |-> r]
          /\ IF r.exc # NoExc
             THEN UNCHANGED <<info, reports, training>>
             ELSE /\ info' = r.info
                  /\ reports' = Append(reports, r.info)
                  /\ training' = [training EXCEPT !.action = r.info.distance]
    /\ ncalls' = ncalls + 1
    /\ UNCHANGED <<cls, packages, i, stdout, exc, pc>>

CallShowTrainingInfo ==
    /\ pc = "ready"
    /\ ncalls < MaxCalls
    /\ LET r == show_training_info(training)
       IN /\ ret' = [kind |-> "show_training_info", v |-> r]
          /\ IF r.exc # NoExc
             THEN UNCHANGED <<info, reports>>
             ELSE /\ info' = r.info
                  /\ reports' = Append(reports, r.info)
    /\ ncalls' = ncalls + 1
    /\ UNCHANGED <<cls, packages, i, training, stdout, exc, pc>>

CallGetMessage ==
    /\ pc = "ready"
    /\ ncalls < MaxCalls
    /\ info # NoInfo
    /\ ret' = [kind |-> "get_message", v |-> get_message(info)]
    /\ ncalls' = ncalls + 1
    /\ UNCHANGED <<cls, packages, i, training, info, stdout, exc, pc, reports>>

NextCalls ==
    \/ CallReadPackage
    \/ CallGetDistance
    \/ CallGetMeanSpeed
    \/ CallGetSpentCalories
    \/ CallShowTrainingInfo
    \/ CallGetMessage

SpecCalls == InitCalls /\ [][NextCalls]_vars

\* ================================================================ claims
QLess(a, b) == a.n * b.d < b.n * a.d

Contains(s, sub) ==
    \E k \in 1..(Len(s) - Len(sub) + 1) : SubSeq(s, k, k + Len(sub) - 1) = sub

KnownCodes == {"SWM", "RUN", "WLK"}
Arity(code) == CASE code = "RUN" -> 3 [] code = "WLK" -> 4 [] code = "SWM" -> 5
TheCode == packages[1].workout_type
TheData == packages[1].data
Dispatched == pc # "call"

\* C1: once read_package has been called with a code that is not SWM, RUN or
\* WLK, whatever the data list, the call has ended in a ValueError whose
\* message contains the code, no record was constructed, no report was built
\* and nothing was printed.
C1_UnknownCodeRejected ==
    (Dispatched /\ TheCode \notin KnownCodes) =>
        /\ pc = "raised"
        /\ exc.type = "ValueError"
        /\ Contains(exc.msg, TheCode)
        /\ training = NoTraining
        /\ info = NoInfo
        /\ reports = <<>>
        /\ stdout = <<>>
        /\ ret = NoRet

C1_Witness ==
    /\ pc = "raised"
    /\ TheCode = "FOO"
    /\ Len(TheData) = 3
    /\ exc.type = "ValueError"
    /\ Contains(exc.msg, "FOO")

\* C2: for a known code and a data list of the matching length, read_package
\* returns a record of the class the mapping names whose fields are the data
\* values in declaration order: action, duration, weight, then height (WLK)
\* or length_pool, count_pool (SWM).
C2_PositionalBinding ==
    (Dispatched /\ TheCode \in KnownCodes /\ Len(TheData) = Arity(TheCode)) =>
        /\ pc = "ready"
        /\ exc = NoExc
        /\ training.class = (CASE TheCode = "SWM" -> "Swimming"
                               [] TheCode = "RUN" -> "Running"
                               [] TheCode = "WLK" -> "SportsWalking")
        /\ training.action = TheData[1]
        /\ training.duration = TheData[2]
        /\ training.weight = TheData[3]
        /\ TheCode = "RUN" =>
              DOMAIN training = {"class", "action", "duration", "weight"}
        /\ TheCode = "WLK" =>
              /\ DOMAIN training = {"class", "action", "duration", "weight", "height"}
              /\ training.height = TheData[4]
        /\ TheCode = "SWM" =>
              /\ DOMAIN training = {"class", "action", "duration", "weight",
                                    "length_pool", "count_pool"}
              /\ training.length_pool = TheData[4]
              /\ training.count_pool = TheData[5]

C2_Witness ==
    /\ pc = "ready"
    /\ TheCode = "SWM"
    /\ TheData = <<Num(720), Num(1), Num(80), Num(25), Num(40)>>
    /\ training.length_pool = Num(25)
    /\ training.count_pool = Num(40)

\* C7: for a known code, read_package constructs a record exactly when the
\* data list has the variant's field count (RUN 3, WLK 4, SWM 5); with a
\* shorter or longer list the call ends in a TypeError (not turned into
\* another error), and no record or report exists and nothing is printed.
C7_ArityMismatchRaises ==
    (Dispatched /\ TheCode \in KnownCodes) =>
        IF Len(TheData) = Arity(TheCode)
        THEN pc = "ready" /\ exc = NoExc /\ training # NoTraining
        ELSE /\ pc = "raised"
             /\ exc.type = "TypeError"
             /\ training = NoTraining
             /\ info = NoInfo
             /\ reports = <<>>
             /\ stdout = <<>>
             /\ ret = NoRet

C7_Witness ==
    /\ pc = "raised"
    /\ TheCode = "WLK"
    /\ Len(TheData) = 5
    /\ exc.type = "TypeError"


PoolSpeed(t) ==
    QDiv(QDiv(QMul(t.length_pool, t.count_pool), Num(1000)), t.duration)

\* C5: the reports of Swimming records that agree on duration, weight,
\* length_pool and count_pool but differ in action carry the same mean speed,
\* length_pool * count_pool / 1000 / duration, and the same calories, while
\* the distance is action * 1.38 / 1000; the speed is the pool-lap speed, and
\* differs from distance / duration whenever the two formulas differ.
C5_SwimmingSpeedIgnoresAction ==
    (pc = "ready" /\ training.class = "Swimming" /\ training.duration.n # 0) =>
        /\ (ret.kind = "get_mean_speed") =>
              IsVal(ret.v) /\ Rat(ret.v) = PoolSpeed(training)
        /\ \A k \in 1..Len(reports) :
              /\ reports[k].speed = PoolSpeed(training)
              /\ reports[k].distance = QMul(training.action, Q(138, 100000))
              /\ (QMul(training.action, Q(138, 100))
                    # QMul(training.length_pool, training.count_pool)) =>
                   reports[k].speed # QDiv(reports[k].distance, training.duration)
              /\ \A a \in ActionValues :
                   LET other == show_training_info([training EXCEPT !.action = a])
                   IN /\ other.exc = NoExc
                      /\ other.info.speed = reports[k].speed
                      /\ other.info.calories = reports[k].calories
                      /\ other.info.distance = QMul(a, Q(138, 100000))

C5_Witness ==
    /\ pc = "ready"
    /\ TheCode = "SWM"
    /\ TheData = <<Num(720), Num(1), Num(80), Num(25), Num(40)>>
    /\ Len(reports) >= 1
    /\ reports[1].speed = Num(1)
    /\ reports[1].distance = Q(9936, 10000)

WalkSpeed(t) == QDiv(QMul(t.action, Q(65, 100000)), t.duration)
WalkFloor(t) == FloorQ(QDiv(QMul(WalkSpeed(t), WalkSpeed(t)), t.height))

\* C6: for Walking records with a non-zero duration and height the calories
\* are (0.035 * weight + floor(mean_speed^2 / height) * 0.029 * weight) * 60
\* * duration; when mean_speed^2 < height they are 0.035 * weight * 60 *
\* duration.
C6_WalkingFloorDivision ==
    (/\ pc = "ready"
     /\ training.class = "SportsWalking"
     /\ training.duration.n # 0
     /\ training.height.n # 0
     /\ ret.kind = "get_spent_calories") =>
        LET w == training.weight
            base == QMul(Q(35, 1000), w)
            term == QMul(QMul(Num(WalkFloor(training)), Q(29, 1000)), w)
        IN /\ IsVal(ret.v)
           /\ Rat(ret.v) = QMul(QMul(QAdd(base, term), Num(60)), training.duration)
           /\ QLess(QMul(WalkSpeed(training), WalkSpeed(training)), training.height) =>
                 Rat(ret.v) = QMul(QMul(base, Num(60)), training.duration)

\* Speed 23.4 km/h, height 180: 547.56 / 180 = 3.042, floored to 3.
C6_Witness ==
    /\ pc = "ready"
    /\ TheCode = "WLK"
    /\ TheData = <<Num(9000), Q(1, 4), Num(75), Num(180)>>
    /\ ret.kind = "get_spent_calories"
    /\ WalkFloor(training) = 3
    /\ Rat(ret.v) = Q(137250, 1000)

ZeroDivisor(t) ==
    \/ t.duration.n = 0
    \/ t.class = "SportsWalking" /\ t.height.n = 0

\* C8 as stated: on every record read_package builds, get_distance,
\* get_mean_speed, get_spent_calories and the report build complete without
\* an error.
C8_NoCalculationError ==
    pc = "ready" =>
        /\ ret.kind \in {"get_distance", "get_mean_speed", "get_spent_calories"} =>
              IsVal(ret.v)
        /\ ret.kind = "show_training_info" => ret.v.exc = NoExc

\* C8 amended: get_distance always completes; get_mean_speed raises
\* ZeroDivisionError exactly when duration is zero; get_spent_calories and
\* the report build raise ZeroDivisionError exactly when duration is zero or,
\* for Walking, height is zero, and complete otherwise; a dispatch fails only
\* with ValueError or TypeError; NotImplementedError never occurs.
C8_ErrorsExactlyZeroDivision ==
    /\ pc = "raised" => exc.type \in {"ValueError", "TypeError"}
    /\ pc = "ready" =>
        /\ exc = NoExc
        /\ ret.kind = "get_distance" => IsVal(ret.v)
        /\ ret.kind = "get_mean_speed" =>
              IF training.duration.n = 0
              THEN ret.v.exc = "ZeroDivisionError" ELSE IsVal(ret.v)
        /\ ret.kind = "get_spent_calories" =>
              IF ZeroDivisor(training)
              THEN ret.v.exc = "ZeroDivisionError" ELSE IsVal(ret.v)
        /\ ret.kind = "show_training_info" =>
              IF ZeroDivisor(training)
              THEN ret.v.exc.type = "ZeroDivisionError" /\ ret.v.info = NoInfo
              ELSE ret.v.exc = NoExc /\ ret.v.info # NoInfo

C8_Witness ==
    /\ pc = "ready"
    /\ TheCode = "WLK"
    /\ TheData = <<Num(9000), Num(1), Num(75), Num(0)>>
    /\ ret.kind = "show_training_info"
    /\ ret.v.exc.type = "ZeroDivisionError"

\* C9: no direct call changes a field of the record or a class constant, a
\* rebuilt report equals the one built before, and all reports built on the
\* record are identical.
C9_ReportIdempotent ==
    [][/\ pc = "ready" =>
            /\ training' = training
            /\ cls' = cls
            /\ info # NoInfo => info' = info
       /\ \A j, k \in 1..Len(reports') : reports'[j] = reports'[k]]_vars

C9_Witness ==
    /\ pc = "ready"
    /\ Len(reports) >= 2
    /\ reports[1] = reports[2]
    /\ ret.kind = "get_message"
    /\ training.class = "SportsWalking"


RunSample == Pkg("RUN", <<Num(15000), Num(1), Num(75)>>)

\* C3 as stated: the line printed for read_package("RUN", [15000, 1, 75])
\* shows duration 1.000, distance 9.750 km, mean speed 9.750 km/h and
\* spent calories 691.200.
C3_RunSampleOriginal ==
    \A k \in 1..Len(stdout) :
        packages[k] = RunSample =>
            /\ Contains(stdout[k], "Tip trenirovki: Running; ")
            /\ Contains(stdout[k], "Dlitelnost: 1.000 ch.; ")
            /\ Contains(stdout[k], "Distantsiya: 9.750 km; ")
            /\ Contains(stdout[k], "Sr. skorost: 9.750 km/ch; ")
            /\ Contains(stdout[k], "Potracheno kkal: 691.200.")

\* C3 amended: the line shows duration 1.000, distance 9.750 km, mean speed
\* 9.750 km/h and spent calories 797.805, the calories being
\* (18 * mean_speed + 1.79) * weight / 1000 * duration * 60.
C3_RunSampleReport ==
    /\ \A k \in 1..Len(stdout) :
          packages[k] = RunSample =>
              stdout[k] = "Tip trenirovki: Running; Dlitelnost: 1.000 ch.; "
                          \o "Distantsiya: 9.750 km; Sr. skorost: 9.750 km/ch; "
                          \o "Potracheno kkal: 797.805."
    /\ (pc = "loop" /\ i > 1 /\ packages[i - 1] = RunSample) =>
          /\ info.duration = Num(1)
          /\ info.distance = Q(975, 100)
          /\ info.speed = Q(975, 100)
          /\ info.calories =
                QMul(QMul(QDiv(QMul(QAdd(QMul(Num(18), info.speed), Q(179, 100)),
                                    Num(75)),
                               Num(1000)),
                          Num(1)),
                     Num(60))
          /\ info.calories = Q(797805, 1000)

C3_Witness ==
    /\ Len(packages) = 3
    /\ packages[2] = RunSample
    /\ pc = "loop"
    /\ i = 3
    /\ Len(stdout) = 2
    /\ Contains(stdout[2], "Potracheno kkal: 797.805.")

LabelOf(code) ==
    CASE code = "RUN" -> "Running"
      [] code = "WLK" -> "SportsWalking"
      [] code = "SWM" -> "Swimming"

LabelClaimed(code) ==
    CASE code = "RUN" -> "Running"
      [] code = "WLK" -> "Walking"
      [] code = "SWM" -> "Swimming"

StartsWith(s, prefix) ==
    Len(s) >= Len(prefix) /\ SubSeq(s, 1, Len(prefix)) = prefix

\* C4 as stated: the report of a record dispatched from RUN is labelled
\* Running, from WLK Walking, from SWM Swimming.
C4_LabelOriginal ==
    /\ \A k \in 1..Len(stdout) :
          StartsWith(stdout[k], "Tip trenirovki: "
                                \o LabelClaimed(packages[k].workout_type) \o "; ")
    /\ (pc = "loop" /\ i > 1) =>
          info.training_type = LabelClaimed(packages[i - 1].workout_type)

\* C4 amended: the label is the name of the record's class: Running for RUN,
\* SportsWalking for WLK, Swimming for SWM.
C4_LabelIsClassName ==
    /\ \A k \in 1..Len(stdout) :
          StartsWith(stdout[k], "Tip trenirovki: "
                                \o LabelOf(packages[k].workout_type) \o "; ")
    /\ (pc = "loop" /\ i > 1) =>
          /\ info.training_type = LabelOf(packages[i - 1].workout_type)
          /\ info.training_type = training.class

C4_Witness ==
    /\ pc = "loop"
    /\ i = 2
    /\ packages[1].workout_type = "WLK"
    /\ info.training_type = "SportsWalking"
    /\ StartsWith(stdout[1], "Tip trenirovki: SportsWalking; ")

\* A pair fails when its code is unknown, its data has the wrong length, its
\* duration is zero or, for WLK, its height is zero.
Fails(p) ==
    \/ p.workout_type \notin KnownCodes
    \/ /\ p.workout_type \in KnownCodes
       /\ \/ Len(p.data) # Arity(p.workout_type)
          \/ p.data[2].n = 0
          \/ p.workout_type = "WLK" /\ p.data[4].n = 0

FirstFail(pk) ==
    IF \E k \in 1..Len(pk) : Fails(pk[k])
    THEN CHOOSE k \in 1..Len(pk) :
            Fails(pk[k]) /\ \A j \in 1..(k - 1) : ~Fails(pk[j])
    ELSE Len(pk) + 1

LineOf(p) ==
    get_message(show_training_info(read_package(p.workout_type, p.data).obj).info)

\* C10: the pairs are processed in list order; each successful pair has
\* printed exactly one line before the next is dispatched; the first failing
\* pair prints nothing and halts the run, so the printed lines are exactly
\* those of the pairs before the first failing one, and no later pair is
\* dispatched.
C10_BatchHaltsAtFirstFailure ==
    LET ff == FirstFail(packages)
    IN /\ i <= ff
       /\ \A k \in 1..Len(stdout) : k < ff /\ stdout[k] = LineOf(packages[k])
       /\ pc \in {"loop", "main"} => Len(stdout) = i - 1 /\ exc = NoExc
       /\ pc = "main" =>
             /\ i <= Len(packages)
             /\ training = read_package(packages[i].workout_type,
                                        packages[i].data).obj
       /\ pc = "halted" =>
             /\ i = ff
             /\ ff <= Len(packages)
             /\ Len(stdout) = ff - 1
             /\ exc # NoExc
             /\ ~ENABLED Next
       /\ pc = "done" =>
             /\ ff = Len(packages) + 1
             /\ Len(stdout) = Len(packages)
             /\ exc = NoExc

C10_Witness ==
    /\ pc = "halted"
    /\ Len(packages) = 3
    /\ i = 2
    /\ ~Fails(packages[3])
    /\ Len(stdout) = 1
    /\ exc.type = "ZeroDivisionError"

====
